---- MODULE Spec2Model ----
(***************************************************************************)
(* Model of the Instaseis server request handling                          *)
(* (instaseis/server/instaseis_request.py) and of the database discovery   *)
(* (instaseis/database_interfaces/__init__.py).                            *)
(*                                                                         *)
(* Times are whole seconds (integers), depths and radii whole meters.      *)
(* Python's None is the record NoneValue, a coerced float is FloatValue(n),*)
(* an absolute time (obspy.UTCDateTime) is AbsTime(t), a phase relative    *)
(* offset (obspy.core.AttribDict) is PhaseRel(p, o).                       *)
(***************************************************************************)
EXTENDS Integers, Sequences, FiniteSets, TLC

VARIABLES
    \* ---- parse_arguments ----
    arguments,          \* the handler class' schema: self.arguments
    request_arguments,  \* self.request.arguments: key -> list of raw values
    hook_raises,        \* whether the subclass' validate_parameters raises
    parsed,             \* outcome of the last parse_arguments call
    \* ---- parse_time_settings ----
    time_request,       \* args.origintime/starttime/endtime as passed in
    time_args,          \* the same attributes after the call (args is mutated)
    ti,                 \* what _get_seismogram_times returned
    time_error,         \* the HTTPError raised, "none", or "not-called"
    \* ---- validate_geometry ----
    info,               \* self.application.db.info
    source,             \* source.depth_in_m
    receiver,           \* receiver.depth_in_m
    geometry,           \* "not-called", "ok" or the error raised
    \* ---- find_and_open_files ----
    tree,               \* directories below `path` holding ordered_output.nc4
    located,            \* outcome of find_and_open_files
    \* ---- connection handling ----
    private_closed,     \* per handler: self._InstaseisTimeSeriesHandler__connection_closed
    close_called,       \* per handler: on_connection_close has been called
    produced,           \* per handler: seismograms written by the extraction loop
    loop_pc             \* per handler: "running", "stopped" or "finished"

argsVars == <<arguments, request_arguments, hook_raises, parsed>>
timeVars == <<time_request, time_args, ti, time_error>>
geomVars == <<info, source, receiver, geometry>>
locateVars == <<tree, located>>
connVars == <<private_closed, close_called, produced, loop_pc>>
vars == <<argsVars, timeVars, geomVars, locateVars, connVars>>

(***************************************************************************)
(* Values                                                                  *)
(***************************************************************************)
NoneValue == [t |-> "none", v |-> 0, phase |-> ""]
UnsetValue == [t |-> "unset", v |-> 0, phase |-> ""]
FloatValue(n) == [t |-> "float", v |-> n, phase |-> ""]
AbsTime(n) == [t |-> "abs", v |-> n, phase |-> ""]
PhaseRel(p, n) == [t |-> "phase", v |-> n, phase |-> p]

(***************************************************************************)
(* parse_arguments                                                         *)
(***************************************************************************)
\* Largest number of values one key of the query string carries.
MaxValues == 2

\* The names of the schema, in the iteration order of self.arguments.
SchemaNames == <<"p1", "p2">>

\* Keys a request may carry: the schema's names and one the schema lacks.
RequestKeys == {"p1", "p2", "zz"}

\* Raw query string values: one a float coercer accepts, one it rejects.
RawValues == {"1", "abc"}

\* properties dictionaries: "required" may be missing, True or False,
\* "default" may be missing or a raw value, "format" may be missing.
PropertySet ==
    [required : {"absent", "true", "false"},
     default  : {"absent", "1"},
     format   : BOOLEAN]

SchemaSet == [1..Len(SchemaNames) -> PropertySet]

ValueLists == UNION {[1..n -> RawValues] : n \in 0..MaxValues}

\* A key with the empty list stands for a key that is not in the request:
\* tornado never stores a key without a value.
RequestSet == [RequestKeys -> ValueLists]

KeysOf(raw) == {k \in RequestKeys : raw[k] # <<>>}

NamesOf(schema) == {SchemaNames[i] : i \in DOMAIN schema}

\* properties["type"](value) with type = float: the string "1" becomes the
\* number 1, any other string raises ValueError.
TypeAccepts(value) == value = "1"
TypeConvert(value) == IF value = "1" THEN FloatValue(1) ELSE UnsetValue

\* tornado's RequestHandler.get_argument(name): the last value of the key,
\* a missing key raises MissingArgumentError ("missing").
GetArgument(raw, name) ==
    IF raw[name] = <<>> THEN "missing" ELSE raw[name][Len(raw[name])]

UnknownArgumentsReversed(raw, schema) == NamesOf(schema) \ KeysOf(raw)

\* set(self.request.arguments.keys()).difference(set(self.arguments.keys()))
UnknownArguments(raw, schema) == KeysOf(raw) \ NamesOf(schema)

Duplicates(raw) == {k \in KeysOf(raw) : Len(raw[k]) # 1}

\* `if "required" in properties`: the presence of the key decides, not its value.
IsRequired(properties) == properties.required # "absent"

Outcome(error, param, msg, args, coerced, hook) ==
    [error |-> error, param |-> param, msg |-> msg, args |-> args,
     coerced |-> coerced, hook |-> hook]

NoArgs == [i \in DOMAIN SchemaNames |-> UnsetValue]

\* The loop over self.arguments.items(), from the i-th entry on; `args` holds
\* the attributes set so far and `coerced` the entries whose coercer has run.
RECURSIVE ArgumentLoop(_, _, _, _, _, _)
ArgumentLoop(schema, raw, hook, i, args, coerced) ==
    IF i > Len(schema)
    THEN IF hook
         THEN Outcome("hook", "", "", NoArgs, coerced, TRUE)
         ELSE Outcome("none", "", "", args, coerced, TRUE)
    ELSE LET properties == schema[i]
             name == SchemaNames[i]
             given == GetArgument(raw, name)
         IN  IF IsRequired(properties) /\ given = "missing"
             THEN Outcome("missing-required", name, "", NoArgs, coerced, FALSE)
             ELSE LET value == IF given # "missing" THEN given
                               ELSE IF IsRequired(properties) THEN "missing"
                               ELSE IF properties.default # "absent"
                                    THEN properties.default
                                    ELSE "None"
                  IN  IF value = "None"
                      THEN ArgumentLoop(schema, raw, hook, i + 1,
                               [args EXCEPT ![i] = NoneValue], coerced)
                      ELSE IF ~TypeAccepts(value)
                      THEN Outcome("type-coercion", name,
                               IF properties.format THEN "format" ELSE "type-name",
                               NoArgs, coerced \cup {name}, FALSE)
                      ELSE ArgumentLoop(schema, raw, hook, i + 1,
                               [args EXCEPT ![i] = TypeConvert(value)],
                               coerced \cup {name})

parse_arguments(schema, raw, hook) ==
    IF UnknownArguments(raw, schema) # {}
    THEN Outcome("unknown-parameter", "", "", NoArgs, {}, FALSE)
    ELSE IF Duplicates(raw) # {}
    THEN Outcome("duplicate-parameter", "", "", NoArgs, {}, FALSE)
    ELSE ArgumentLoop(schema, raw, hook, 1, NoArgs, {})

NotParsed == Outcome("not-called", "", "", NoArgs, {}, FALSE)

(***************************************************************************)
(* parse_time_settings                                                     *)
(***************************************************************************)
\* The start time may lie at most this many seconds before ti["starttime"].
OneHour == 3600

\* Length in seconds of the seismograms of the database.
SeisLength == 1800

\* Offsets in seconds, around the limits the checks compare with.
TimeOffsets ==
    {0 - OneHour - 1, 0 - OneHour, 1 - OneHour, -1, 0, 1, 60,
     SeisLength - 1, SeisLength, SeisLength + 1}

OriginTimes == {NoneValue, AbsTime(0), AbsTime(1000)}

OriginOf(o) == IF o = NoneValue THEN 0 ELSE o.v

PhaseTimes == {PhaseRel("P", -10), PhaseRel("S", 10)}

\* What the coercer of starttime and endtime can deliver for a given origin.
TimeInputs(o) ==
    {NoneValue} \cup {AbsTime(OriginOf(o) + d) : d \in TimeOffsets}
                \cup {FloatValue(d) : d \in TimeOffsets} \cup PhaseTimes

\* Seconds between the origin time and the first sample of the extent.
ExtentShifts == {0, 7}

IsAbs(x) == x.t = "abs"
IsFloat(x) == x.t = "float"

\* _get_seismogram_times(info, origin_time, dt, kernelwidth, False, False):
\* the extent of the seismograms for this origin time.
GetSeismogramTimes(origintime, shift, length) ==
    [starttime |-> origintime.v + shift,
     endtime |-> origintime.v + shift + length]

ResolveOrigintime(origintime) ==
    IF origintime = NoneValue THEN AbsTime(0) ELSE origintime

\* origintime is the resolved one.
ResolveStarttime(starttime, origintime) ==
    LET s == IF starttime = NoneValue THEN origintime ELSE starttime
    IN  IF IsFloat(s) THEN AbsTime(origintime.v + s.v) ELSE s

ResolveEndtimeFromOrigin(endtime, starttime, origintime) ==
    IF IsFloat(endtime) /\ IsAbs(starttime)
    THEN AbsTime(origintime.v + endtime.v)
    ELSE endtime

\* starttime and origintime are the resolved ones; the assert of the else
\* branch holds for every value the coercers deliver.
ResolveEndtime(endtime, starttime, origintime) ==
    IF IsFloat(endtime) /\ IsAbs(starttime)
    THEN AbsTime(starttime.v + endtime.v)
    ELSE endtime

DefaultEndtime(endtime, extent) ==
    IF endtime = NoneValue THEN AbsTime(extent.endtime) ELSE endtime

StarttimeAfterDataEndsStrict(starttime, extent) ==
    IsAbs(starttime) /\ starttime.v > extent.endtime

StarttimeAfterDataEnds(starttime, extent) ==
    IsAbs(starttime) /\ starttime.v >= extent.endtime

StarttimeTooEarly(starttime, extent) ==
    IsAbs(starttime) /\ starttime.v < extent.starttime - OneHour

EndtimeOutOfRange(endtime, extent) ==
    IsAbs(endtime) /\ ~(extent.starttime <= endtime.v /\ endtime.v <= extent.endtime)

\* The whole method: the attributes of args after the call, the extent and
\* the error raised ("none": the method returned the extent's two times).
parse_time_settings(args, shift, length) ==
    LET origintime == ResolveOrigintime(args.origintime)
        starttime == ResolveStarttime(args.starttime, origintime)
        endtime1 == ResolveEndtime(args.endtime, starttime, origintime)
        extent == GetSeismogramTimes(origintime, shift, length)
        endtime == DefaultEndtime(endtime1, extent)
    IN  [args |-> [origintime |-> origintime, starttime |-> starttime,
                   endtime |-> endtime],
         ti |-> extent,
         error |-> IF StarttimeAfterDataEnds(starttime, extent)
                   THEN "starttime-after-data-ends"
                   ELSE IF StarttimeTooEarly(starttime, extent)
                   THEN "starttime-too-early"
                   ELSE IF EndtimeOutOfRange(endtime, extent)
                   THEN "endtime-out-of-range"
                   ELSE "none"]

NoTimes == [origintime |-> UnsetValue, starttime |-> UnsetValue, endtime |-> UnsetValue]
NoExtent == [starttime |-> 0, endtime |-> 0]

(***************************************************************************)
(* validate_geometry                                                       *)
(***************************************************************************)
\* db.info: radii in meters, source_depth of a forward database in km.
InfoSet ==
    [is_reciprocal : BOOLEAN,
     planet_radius : {6371000},
     min_radius    : {3480000, 6271000},
     max_radius    : {6371000, 6361000},
     source_depth  : {10, 100}]

\* source.depth_in_m
SourceDepths ==
    {-1, 0, 1, 9999, 10000, 10001, 99999, 100000, 100001,
     2890999, 2891000, 2891001, 7000000}

\* receiver.depth_in_m, which may be None
ReceiverDepths == {NoneValue, FloatValue(0), FloatValue(1)}

ReceiverAtSurface(receiver_depth) ==
    receiver_depth = NoneValue \/ receiver_depth.v = 0

SourceDepthInRangeExclusive(i, depth) ==
    /\ i.planet_radius - i.max_radius < depth
    /\ depth < i.planet_radius - i.min_radius

SourceDepthInRange(i, depth) ==
    /\ i.planet_radius - i.max_radius <= depth
    /\ depth <= i.planet_radius - i.min_radius

validate_geometry(i, source_depth, receiver_depth) ==
    IF i.is_reciprocal
    THEN IF ~ReceiverAtSurface(receiver_depth)
         THEN "receiver-not-at-surface"
         ELSE IF ~SourceDepthInRange(i, source_depth)
         THEN "source-depth-out-of-range"
         ELSE "ok"
    ELSE IF source_depth # i.source_depth * 1000
         THEN "source-depth-mismatch"
         ELSE "ok"

(***************************************************************************)
(* find_and_open_files                                                     *)
(***************************************************************************)
\* Largest number of directories with an ordered_output.nc4 in one tree.
MaxFiles == 5

\* os.walk stops descending once the relative path has this many segments.
MaxNesting == 4

patterns == <<"PX", "PZ", "MZZ", "MXX_P_MYY", "MXZ_MYZ", "MXY_MXX_M_MYY">>

Tags == {patterns[i] : i \in DOMAIN patterns}

MomentTensorTags == {"MZZ", "MXX_P_MYY", "MXZ_MYZ", "MXY_MXX_M_MYY"}

\* Directories, as their path segments below `path`, that may hold a file
\* named ordered_output.nc4.
DirectoryPool ==
    {<<>>, <<"Data">>}
    \cup {<<patterns[i], "Data">> : i \in DOMAIN patterns}
    \cup {<<"PZ">>, <<"MZZ">>,
          <<"PZ", "MZZ">>, <<"MZZ", "MXX_P_MYY">>, <<"MXZ_MYZ", "MXY_MXX_M_MYY">>,
          <<"a", "b", "c", "PX">>, <<"a", "b", "c", "d", "PZ">>}

Trees == {t \in SUBSET DirectoryPool : Cardinality(t) <= MaxFiles}

\* The walk visits a directory unless an ancestor had MaxNesting or more
\* segments, and records the file of every directory it visits.
FoundFiles(t) == {d \in t : Len(d) <= MaxNesting}

\* os.path.relpath(filename, path).split(os.path.sep)
Segments(d) == d \o <<"ordered_output.nc4">>

InSegments(p, d) == \E i \in DOMAIN Segments(d) : Segments(d)[i] = p

\* The patterns under which the inner loop appends the file: every pattern
\* found among the segments (the loop has no break).
MatchedPatterns(d) == {patterns[i] : i \in {j \in DOMAIN patterns : InSegments(patterns[j], d)}}

\* netcdf_files after the classification loop: pattern -> files.
NetcdfFiles(found) == [p \in Tags |-> {d \in found : p \in MatchedPatterns(d)}]

KeysOfNetcdf(nc) == {p \in Tags : nc[p] # {}}

CountAllowedLoose(n) == n \in {1, 2, 3, 4}
CountAllowed(n) == n \in {1, 2, 4}

Located(status, why, type, files) ==
    [status |-> status, why |-> why, type |-> type, files |-> files]

\* files: the pairs <<role, directory of the file>> of InstaseisDB's netcdf_files.
find_and_open_files(t) ==
    LET found == FoundFiles(t)
        nc == NetcdfFiles(found)
        keys == KeysOfNetcdf(nc)
        files == {<<p, d>> \in Tags \X found : d \in nc[p]}
    IN  IF Cardinality(found) = 0
        THEN Located("InstaseisNotFoundError", "no-files", "", {})
        ELSE IF ~CountAllowed(Cardinality(found))
        THEN Located("InstaseisError", "count", "", {})
        ELSE IF \E p \in keys : Cardinality(nc[p]) # 1
        THEN Located("InstaseisError", "files-per-component", "", {})
        ELSE IF "PX" \in keys \/ "PZ" \in keys
        THEN Located("ok", "", "reciprocal", files)
        ELSE IF keys \cap MomentTensorTags # {}
        THEN IF keys # MomentTensorTags
             THEN Located("InstaseisError", "four-components", "", {})
             ELSE Located("ok", "", "forward", files)
        ELSE Located("InstaseisError", "no-components", "", {})

NotLocated == Located("not-called", "", "", {})

(***************************************************************************)
(* on_connection_close and the loop that requests the seismograms          *)
(***************************************************************************)
NHandlers == 3
MaxOutput == 3

Handlers == 1..NHandlers

\* The class attribute InstaseisTimeSeriesHandler.connection_closed; no
\* statement assigns to it nor to an instance attribute of that name.
connection_closed == FALSE

\* Reading self.connection_closed: the instance has no attribute of that name
\* (on_connection_close writes the name-mangled
\* _InstaseisTimeSeriesHandler__connection_closed), so the class attribute is
\* what the read returns.
ReadConnectionClosed(h) == connection_closed


(***************************************************************************)
(* State machines.  A handler object serves one request, a database is     *)
(* opened once: every operation runs once on the inputs it is given.       *)
(***************************************************************************)
ArgsIdle ==
    /\ arguments = [i \in DOMAIN SchemaNames |->
                       [required |-> "absent", default |-> "absent", format |-> FALSE]]
    /\ request_arguments = [k \in RequestKeys |-> <<>>]
    /\ hook_raises = FALSE
    /\ parsed = NotParsed

TimeIdle ==
    /\ time_request = NoTimes
    /\ time_args = NoTimes
    /\ ti = NoExtent
    /\ time_error = "not-called"

GeomIdle ==
    /\ info = [is_reciprocal |-> TRUE, planet_radius |-> 6371000,
               min_radius |-> 3480000, max_radius |-> 6371000, source_depth |-> 10]
    /\ source = 0
    /\ receiver = NoneValue
    /\ geometry = "not-called"

LocateIdle ==
    /\ tree = {}
    /\ located = NotLocated

ConnIdle ==
    /\ private_closed = [h \in Handlers |-> FALSE]
    /\ close_called = [h \in Handlers |-> FALSE]
    /\ produced = [h \in Handlers |-> 0]
    /\ loop_pc = [h \in Handlers |-> "running"]

\* ---- parse_arguments ----
InitArgs ==
    /\ arguments \in SchemaSet
    /\ request_arguments = [k \in RequestKeys |-> <<>>]
    /\ hook_raises = FALSE
    /\ parsed = NotParsed
    /\ TimeIdle /\ GeomIdle /\ LocateIdle /\ ConnIdle

ParseArguments ==
    /\ parsed = NotParsed
    /\ \E raw \in RequestSet, hook \in BOOLEAN :
        /\ request_arguments' = raw
        /\ hook_raises' = hook
        /\ parsed' = parse_arguments(arguments, raw, hook)
    /\ UNCHANGED <<arguments, timeVars, geomVars, locateVars, connVars>>

NextArgs == ParseArguments

SpecArgs == InitArgs /\ [][NextArgs]_vars

\* ---- parse_time_settings ----
InitTime == ArgsIdle /\ TimeIdle /\ GeomIdle /\ LocateIdle /\ ConnIdle

ParseTimeSettings ==
    /\ time_error = "not-called"
    /\ \E o \in OriginTimes, shift \in ExtentShifts :
       \E s \in TimeInputs(o), e \in TimeInputs(o) :
        LET args == [origintime |-> o, starttime |-> s, endtime |-> e]
            result == parse_time_settings(args, shift, SeisLength)
        IN  /\ time_request' = args
            /\ time_args' = result.args
            /\ ti' = result.ti
            /\ time_error' = result.error
    /\ UNCHANGED <<argsVars, geomVars, locateVars, connVars>>

NextTime == ParseTimeSettings

SpecTime == InitTime /\ [][NextTime]_vars

\* ---- validate_geometry ----
InitGeom ==
    /\ info \in InfoSet
    /\ source = 0
    /\ receiver = NoneValue
    /\ geometry = "not-called"
    /\ ArgsIdle /\ TimeIdle /\ LocateIdle /\ ConnIdle

ValidateGeometry ==
    /\ geometry = "not-called"
    /\ \E sd \in SourceDepths, rd \in ReceiverDepths :
        /\ source' = sd
        /\ receiver' = rd
        /\ geometry' = validate_geometry(info, sd, rd)
    /\ UNCHANGED <<info, argsVars, timeVars, locateVars, connVars>>

NextGeom == ValidateGeometry

SpecGeom == InitGeom /\ [][NextGeom]_vars

\* ---- find_and_open_files ----
InitLocate ==
    /\ tree \in Trees
    /\ located = NotLocated
    /\ ArgsIdle /\ TimeIdle /\ GeomIdle /\ ConnIdle

FindAndOpenFiles ==
    /\ located = NotLocated
    /\ located' = find_and_open_files(tree)
    /\ UNCHANGED <<tree, argsVars, timeVars, geomVars, connVars>>

NextLocate == FindAndOpenFiles

SpecLocate == InitLocate /\ [][NextLocate]_vars

\* ---- connection handling ----
InitConn == ArgsIdle /\ TimeIdle /\ GeomIdle /\ LocateIdle /\ ConnIdle

\* on_connection_close: the base class' method changes nothing the handler
\* reads; the assignment goes to the name-mangled private attribute.
OnConnectionClose(h) ==
    /\ ~close_called[h]
    /\ private_closed' = [private_closed EXCEPT ![h] = TRUE]
    /\ close_called' = [close_called EXCEPT ![h] = TRUE]
    /\ UNCHANGED <<produced, loop_pc, argsVars, timeVars, geomVars, locateVars>>

\* One round of the loop requesting seismograms: it polls
\* self.connection_closed and stops, or writes the next seismogram.
LoopStep(h) ==
    /\ loop_pc[h] = "running"
    /\ IF ReadConnectionClosed(h)
       THEN /\ loop_pc' = [loop_pc EXCEPT ![h] = "stopped"]
            /\ UNCHANGED produced
       ELSE IF produced[h] < MaxOutput
       THEN /\ produced' = [produced EXCEPT ![h] = @ + 1]
            /\ UNCHANGED loop_pc
       ELSE /\ loop_pc' = [loop_pc EXCEPT ![h] = "finished"]
            /\ UNCHANGED produced
    /\ UNCHANGED <<private_closed, close_called, argsVars, timeVars, geomVars, locateVars>>

NextConn == \E h \in Handlers : OnConnectionClose(h) \/ LoopStep(h)

SpecConn == InitConn /\ [][NextConn]_vars

(***************************************************************************)
(* Properties                                                              *)
(***************************************************************************)
SchemaKeys == {SchemaNames[i] : i \in DOMAIN arguments}

HasUnknownKey == \E k \in RequestKeys : request_arguments[k] # <<>> /\ k \notin SchemaKeys

HasDuplicatedKey == \E k \in RequestKeys : Len(request_arguments[k]) > 1

\* C1: a request with a key the schema lacks ends in the unknown-parameter
\* error whatever else is wrong with it; a request of known keys only, one of
\* them with more than one value, ends in the duplicate-parameter error; in
\* both cases no coercer and no validate_parameters hook has run.
C1_CheckOrder ==
    parsed.error # "not-called" =>
        /\ HasUnknownKey =>
              /\ parsed.error = "unknown-parameter"
              /\ parsed.coerced = {}
              /\ ~parsed.hook
        /\ (~HasUnknownKey /\ HasDuplicatedKey) =>
              /\ parsed.error = "duplicate-parameter"
              /\ parsed.coerced = {}
              /\ ~parsed.hook

\* C1 witness: an unknown key together with a duplicated key, a value the
\* coercer rejects and an absent required parameter.
C1_Witness ==
    /\ parsed.error = "unknown-parameter"
    /\ request_arguments["zz"] # <<>>
    /\ request_arguments["p1"] = <<"1", "abc">>
    /\ request_arguments["p2"] = <<>>
    /\ arguments[2].required = "true"

\* C2: the missing-required error names a parameter only if the schema marks
\* it required = true, the request has no value for it and the schema holds
\* no default for it.
C2_MissingOnlyWhenRequired ==
    parsed.error = "missing-required" =>
        \E i \in DOMAIN arguments :
            /\ SchemaNames[i] = parsed.param
            /\ arguments[i].required = "true"
            /\ arguments[i].default = "absent"
            /\ request_arguments[SchemaNames[i]] = <<>>

RequestedOrigin ==
    IF time_request.origintime = NoneValue THEN 0 ELSE time_request.origintime.v

StartIsAbsolute == time_args.starttime.t = "abs"
EndIsAbsolute == time_args.endtime.t = "abs"

StartErrors == {"starttime-after-data-ends", "starttime-too-early"}

\* C4: parse_time_settings returns without error only with every absolute
\* field inside its bounds; starttime = extent.endtime fails with
\* starttime-after-data-ends, starttime = extent.starttime - 3600 and endtime
\* at either end of the extent are accepted; a field that is not absolute
\* raises none of the errors of its bounds.
C4_Bounds ==
    time_error # "not-called" =>
        /\ (time_error = "none" /\ StartIsAbsolute) =>
              /\ ti.starttime - 3600 <= time_args.starttime.v
              /\ time_args.starttime.v < ti.endtime
        /\ (time_error = "none" /\ EndIsAbsolute) =>
              /\ ti.starttime <= time_args.endtime.v
              /\ time_args.endtime.v <= ti.endtime
        /\ (StartIsAbsolute /\ time_args.starttime.v = ti.endtime) =>
              time_error = "starttime-after-data-ends"
        /\ (StartIsAbsolute /\ time_args.starttime.v = ti.starttime - 3600) =>
              time_error \notin StartErrors
        /\ (EndIsAbsolute /\ time_args.endtime.v \in {ti.starttime, ti.endtime}) =>
              time_error # "endtime-out-of-range"
        /\ ~StartIsAbsolute => time_error \notin StartErrors
        /\ ~EndIsAbsolute => time_error # "endtime-out-of-range"

\* C4 witness: a start time resolved to exactly the end of the extent.
C4_Witness ==
    /\ time_error = "starttime-after-data-ends"
    /\ StartIsAbsolute
    /\ time_args.starttime.v = ti.endtime

\* C10: when parse_time_settings returns without error with starttime and
\* endtime both absolute, starttime is not later than endtime.
C10_StartNotAfterEnd ==
    (time_error = "none" /\ StartIsAbsolute /\ EndIsAbsolute) =>
        time_args.starttime.v <= time_args.endtime.v

\* C5: validate_geometry succeeds exactly when, for a reciprocal database,
\* the receiver depth is None or zero and planet_radius - max_radius <=
\* source depth <= planet_radius - min_radius, and for a forward database,
\* the source depth is source_depth * 1000, whatever the receiver depth.
C5_Geometry ==
    geometry # "not-called" =>
        (geometry = "ok" <=>
            IF info.is_reciprocal
            THEN /\ receiver.t = "none" \/ receiver.v = 0
                 /\ info.planet_radius - info.max_radius <= source
                 /\ source <= info.planet_radius - info.min_radius
            ELSE source = info.source_depth * 1000)

\* C5 witness: a source at the deepest accepted depth of a reciprocal
\* database, the receiver at depth 0.
C5_Witness ==
    /\ geometry = "ok"
    /\ info.is_reciprocal
    /\ info.min_radius = 3480000
    /\ source = 2891000
    /\ receiver = FloatValue(0)

\* The discovered files and their tags, read off the tree itself.
Discovered == {d \in tree : Len(d) <= 4}

TagsOfDir(d) == {d[i] : i \in DOMAIN d} \cap
    {"PX", "PZ", "MZZ", "MXX_P_MYY", "MXZ_MYZ", "MXY_MXX_M_MYY"}

TagsDiscovered == UNION {TagsOfDir(d) : d \in Discovered}

RolesLocated == {f[1] : f \in located.files}

\* C7: an accepted tree is reciprocal exactly if the PX or the PZ role is
\* present, and else forward with exactly the four moment tensor roles; a
\* tree with exactly one file, tagged PZ, gives a reciprocal layout with only
\* PZ; a tree with the four moment tensor tags and no others gives a forward
\* layout with those four roles, and with one of the four missing it is
\* refused with InstaseisError.
C7_Classification ==
    located.status # "not-called" =>
        /\ located.status = "ok" =>
            /\ located.type = "reciprocal" <=> RolesLocated \cap {"PX", "PZ"} # {}
            /\ located.type # "reciprocal" =>
                  /\ located.type = "forward"
                  /\ RolesLocated = {"MZZ", "MXX_P_MYY", "MXZ_MYZ", "MXY_MXX_M_MYY"}
        /\ (Cardinality(Discovered) = 1 /\ \E d \in Discovered : "PZ" \in TagsOfDir(d)) =>
            /\ located.status = "ok"
            /\ located.type = "reciprocal"
            /\ RolesLocated = {"PZ"}
        /\ (Cardinality(Discovered) = 4
              /\ \A d \in Discovered : Cardinality(TagsOfDir(d)) = 1
              /\ TagsDiscovered = {"MZZ", "MXX_P_MYY", "MXZ_MYZ", "MXY_MXX_M_MYY"}) =>
            /\ located.status = "ok"
            /\ located.type = "forward"
            /\ RolesLocated = {"MZZ", "MXX_P_MYY", "MXZ_MYZ", "MXY_MXX_M_MYY"}
        /\ (TagsDiscovered # {}
              /\ TagsDiscovered \subseteq {"MZZ", "MXX_P_MYY", "MXZ_MYZ", "MXY_MXX_M_MYY"}
              /\ TagsDiscovered # {"MZZ", "MXX_P_MYY", "MXZ_MYZ", "MXY_MXX_M_MYY"}) =>
            located.status = "InstaseisError"

\* C8: NotFoundError exactly when no file is discovered; InstaseisError when
\* the number of discovered files is not 1, 2 or 4 (raised by the count
\* check, whatever the tags), when some role has more than one file and when
\* no discovered file carries a tag.
C8_Errors ==
    located.status # "not-called" =>
        /\ located.status = "InstaseisNotFoundError" <=> Discovered = {}
        /\ Discovered = {} => located.why = "no-files"
        /\ Cardinality(Discovered) \notin {0, 1, 2, 4} =>
              /\ located.status = "InstaseisError"
              /\ located.why = "count"
        /\ (\E p \in TagsDiscovered :
                Cardinality({d \in Discovered : p \in TagsOfDir(d)}) > 1) =>
              located.status = "InstaseisError"
        /\ (Discovered # {} /\ TagsDiscovered = {}) =>
              located.status = "InstaseisError"

\* C8 witness: three files with three different tags, refused for their count.
C8_Witness ==
    /\ located.status = "InstaseisError"
    /\ located.why = "count"
    /\ tree = {<<"PX", "Data">>, <<"PZ", "Data">>, <<"MZZ", "Data">>}

\* The first pattern, in the order of the list, among the segments of a file.
FirstMatchOnly(d) ==
    {patterns[i] : i \in {j \in DOMAIN patterns :
        /\ InSegments(patterns[j], d)
        /\ \A k \in 1..(j - 1) : ~InSegments(patterns[k], d)}}

\* C9: every file of the layout is recorded under one role only, the first
\* pattern of the list that its path segments contain.
C9_OneRolePerFile ==
    located.status = "ok" =>
        /\ \A f \in located.files, g \in located.files : f[2] = g[2] => f[1] = g[1]
        /\ \A f \in located.files : f[1] \in FirstMatchOnly(f[2])

\* C6: reading connection_closed on a handler gives false before and true
\* after on_connection_close has been called on it.
C6_CloseObservable ==
    \A h \in Handlers : ReadConnectionClosed(h) = close_called[h]

====
